---- MODULE Spec2Model ----
(***************************************************************************)
(* docs/multithread_example.c: main() creates NUM_THREADS/2 threads that   *)
(* run longParallelComputation1 (role A, endless busy cycle), then loops   *)
(* forever: every tick (usleep + ++i) it tests i % 5000 and, on a          *)
(* multiple, creates NUM_THREADS/2 threads that run                        *)
(* longParallelComputation2 (role B, ten one-second sleeps, then return).  *)
(* No thread is ever joined, and the value returned by pthread_create is   *)
(* discarded.                                                              *)
(*                                                                         *)
(* Scheduling.  usleep()/sleep() suspend for AT LEAST the requested time   *)
(* and no statement of main or of a worker has an upper bound on its       *)
(* duration, so every interleaving of main's steps and the workers' steps  *)
(* is a run the build can produce.  The model is therefore the plain       *)
(* interleaving of the steps below, without a clock.                       *)
(*                                                                         *)
(* The program's numeric constants are scaled down so that the state space *)
(* is finite and small; each scaled value names the source constant it     *)
(* stands for.                                                             *)
(***************************************************************************)
EXTENDS Integers, Sequences, FiniteSets

\* NUM_THREADS (line 12, 20 in the source); each batch creates NUM_THREADS/2.
NumThreads == 4
\* the period of the test (i%5000)==0 of main (line 72), in ticks.
SpawnPeriod == 2
\* the bound of while(i<10) of longParallelComputation2 (line 49).
LifeSeconds == 2
\* the period of the test (i%10000)==0 of longParallelComputation1 (line 26).
BurstPeriod == 2
\* the bound of for (j=0; j<10000000; j++) of longParallelComputation1 (line 31).
BurstSteps == 1
\* how many pthread_create calls of one batch the OS may refuse (EAGAIN).
MaxFailures == 1

\* INT_MAX: the largest value of main's int i (line 61) and of a worker's int
\* i (lines 22, 48).  A counter is followed up to the ++i that overflows it.
IntMax == 4

MaxThreads == 3 * (NumThreads \div 2 + 1)

VARIABLES
    pc,       \* main's position: "create1" (64-65), "tick" (69-72), "create2" (75-76),
              \* "overflow" (++i of line 70 at INT_MAX), "return" (line 82)
    i,        \* main's int i (line 61)
    n,        \* main's int n (line 61)
    pth,      \* main's pthread_t pth (line 60): the one handle main holds
    threads,  \* the threads created so far; the index is the thread's handle
    rc,       \* what the last pthread_create returned (main discards it)
    errs,     \* history: pthread_create calls of the current batch that failed
    nbatch,   \* history: role B batches started
    reported  \* whether main has reported an error to anyone (it has no code to)

vars == <<pc, i, n, pth, threads, rc, errs, nbatch, reported>>

\* pth before the first pthread_create, and what a failed pthread_create may
\* leave in it (POSIX: the contents are undefined).
NoHandle == 0
EAGAIN == 11

----
\* The expressions of the source.

ForCondOffByOne(k) == k <= NumThreads \div 2
\* n < NUM_THREADS/2 (lines 64 and 75)
ForCond(k) == k < NumThreads \div 2

ThreadArgConstant(k) == 0
\* (void*)n: the loop index, passed by value (lines 65 and 76)
ThreadArg(k) == k

SpawnDueOffByOne(t) == t % SpawnPeriod = 1
\* (i%5000)==0 (line 72)
SpawnDue(t) == t % SpawnPeriod = 0

WhileCond2OffByOne(s) == s <= LifeSeconds
\* while(i<10) (line 49)
WhileCond2(s) == s < LifeSeconds

BurstDueOffByOne(s) == s % BurstPeriod = 1
\* (i%10000)==0 (line 26)
BurstDue(s) == s % BurstPeriod = 0

\* j<10000000 (line 31)
BurstCond(s) == s < BurstSteps

While1Bounded == i < SpawnPeriod
\* while (1) of main (line 67)
While1 == TRUE

\* ++i on an int that holds x (lines 34 and 70): signed overflow, whose
\* behaviour is undefined
Overflows(x) == x >= IntMax

PrefixSame(role) == "myparworker"
\* sprintf(name, "myparworker/%d", (int)arg) and "threadtype2/%d" (lines 19, 45)
Prefix(role) == IF role = "A" THEN "myparworker" ELSE "threadtype2"
NameOf(role, arg) == <<Prefix(role), arg>>

\* the number of characters sprintf writes: the prefix (both prefixes have
\* eleven characters), the slash and the decimal digits of the argument
PrefixLen == 11
Digits(a) == IF a < 10 THEN 1 ELSE IF a < 100 THEN 2 ELSE 3
FormatLen(arg) == PrefixLen + 1 + Digits(arg)

\* prctl(PR_SET_NAME, name) (lines 20, 46) keeps at most 15 characters of
\* the string (16 bytes with the terminating NUL) and drops the rest
TaskCommLen == 16
PrSetName(role, arg) ==
    IF FormatLen(arg) < TaskCommLen
    THEN NameOf(role, arg)
    ELSE <<Prefix(role), "truncated">>

\* The thread pthread_create starts: start routine `role` with argument arg,
\* about to run its first statement.  gen is the batch it belongs to (0 for
\* the initial batch, k for the k-th periodic batch).
NewThread(role, arg) ==
    [role |-> role, arg |-> arg, gen |-> nbatch,
     pc |-> "start", i |-> 0, j |-> 0, name |-> <<>>, tmp |-> "none"]

ArgReadByRef(k) == n
\* (int)arg (lines 19, 45): the thread's own copy of the argument
ArgRead(k) == threads[k].arg

FirstPcSkipsLoop(role) == IF role = "A" THEN "sleep" ELSE "done"
\* where a start routine is after its prologue: in its loop (lines 23, 49)
FirstPc(role) == IF role = "A" THEN "sleep" ELSE "loop"

\* double tmp (line 29) is read by pow(tmp, 3) without ever having been
\* set: its value is indeterminate, and so is every value computed from it.
\* No condition of the program reads tmp.
Pow3(v) == IF v = "indeterminate" THEN "indeterminate" ELSE "value"

----
Init ==
    /\ pc = "create1"
    /\ i = 0
    /\ n = 0
    /\ pth = NoHandle
    /\ threads = <<>>
    /\ rc = 0
    /\ errs = 0
    /\ nbatch = 0
    /\ reported = FALSE

\* pthread_create(&pth, NULL, role, (void*)n) succeeds; n++ (lines 65, 76)
CreateOk(role) ==
    /\ threads' = Append(threads, NewThread(role, ThreadArg(n)))
    /\ pth' = Len(threads) + 1
    /\ rc' = 0
    /\ errs' = errs
    /\ n' = n + 1

\* pthread_create fails with EAGAIN: no thread, pth undefined; n++.  main does
\* not look at the return value (lines 65, 76).
CreateFail ==
    /\ errs < MaxFailures
    /\ threads' = threads
    /\ pth' \in {pth, NoHandle}
    /\ rc' = EAGAIN
    /\ errs' = errs + 1
    /\ n' = n + 1

\* one iteration of the loop of lines 64-65
Create1 ==
    /\ pc = "create1"
    /\ ForCond(n)
    /\ (CreateOk("A") \/ CreateFail)
    /\ UNCHANGED <<pc, i, nbatch, reported>>

\* the loop of lines 64-65 ends; main enters while (1)
ForExit1 ==
    /\ pc = "create1"
    /\ ~ForCond(n)
    /\ pc' = "tick"
    /\ UNCHANGED <<i, n, pth, threads, rc, errs, nbatch, reported>>

\* lines 67-75: while (1); usleep; ++i; if ((i%5000)==0) start the loop of
\* line 75.  The ++i that would pass INT_MAX is where main is left.
Tick ==
    /\ pc = "tick"
    /\ IF ~While1
       THEN /\ pc' = "return"
            /\ UNCHANGED <<i, n, errs, nbatch>>
       ELSE IF Overflows(i)
       THEN /\ pc' = "overflow"
            /\ UNCHANGED <<i, n, errs, nbatch>>
       ELSE /\ i' = i + 1
            /\ IF SpawnDue(i + 1)
               THEN /\ pc' = "create2"
                    /\ n' = 0
                    /\ errs' = 0
                    /\ nbatch' = nbatch + 1
               ELSE UNCHANGED <<pc, n, errs, nbatch>>
    /\ UNCHANGED <<pth, threads, rc, reported>>

\* one iteration of the loop of lines 75-76
Create2 ==
    /\ pc = "create2"
    /\ ForCond(n)
    /\ (CreateOk("B") \/ CreateFail)
    /\ UNCHANGED <<pc, i, nbatch, reported>>

\* the loop of lines 75-76 ends; back to the top of while (1)
ForExit2 ==
    /\ pc = "create2"
    /\ ~ForCond(n)
    /\ pc' = "tick"
    /\ UNCHANGED <<i, n, pth, threads, rc, errs, nbatch, reported>>

----
\* longParallelComputation1 (lines 16-38)

AStartSharedCounter(k) ==
    /\ threads[k].role = "A"
    /\ threads[k].pc = "start"
    /\ threads' = [threads EXCEPT ![k].name = PrSetName("A", ArgRead(k)),
                                  ![k].pc = FirstPc("A")]
    /\ i' = 0
    /\ UNCHANGED <<pc, n, pth, rc, errs, nbatch, reported>>

\* lines 18-22: sprintf, prctl(PR_SET_NAME), i = 0
AStart(k) ==
    /\ threads[k].role = "A"
    /\ threads[k].pc = "start"
    /\ threads' = [threads EXCEPT ![k].name = PrSetName("A", ArgRead(k)),
                                  ![k].i = 0,
                                  ![k].pc = FirstPc("A")]
    /\ UNCHANGED <<pc, i, n, pth, rc, errs, nbatch, reported>>

\* lines 25-34: usleep(1000); on a burst iteration enter the for loop with
\* tmp unset, otherwise ++i
ASleep(k) ==
    /\ threads[k].role = "A"
    /\ threads[k].pc = "sleep"
    /\ IF BurstDue(threads[k].i)
       THEN threads' = [threads EXCEPT ![k].pc = "burst",
                                       ![k].j = 0,
                                       ![k].tmp = "indeterminate"]
       ELSE IF Overflows(threads[k].i)
       THEN threads' = [threads EXCEPT ![k].pc = "overflow"]
       ELSE threads' = [threads EXCEPT ![k].i = threads[k].i + 1]
    /\ UNCHANGED <<pc, i, n, pth, rc, errs, nbatch, reported>>

\* lines 31-34: one tmp = pow(tmp, 3) of the for loop, or its exit followed
\* by ++i
ABurst(k) ==
    /\ threads[k].role = "A"
    /\ threads[k].pc = "burst"
    /\ IF BurstCond(threads[k].j)
       THEN threads' = [threads EXCEPT ![k].j = threads[k].j + 1,
                                       ![k].tmp = Pow3(threads[k].tmp)]
       ELSE IF Overflows(threads[k].i)
       THEN threads' = [threads EXCEPT ![k].j = 0,
                                       ![k].tmp = "none",
                                       ![k].pc = "overflow"]
       ELSE threads' = [threads EXCEPT ![k].i = threads[k].i + 1,
                                       ![k].j = 0,
                                       ![k].tmp = "none",
                                       ![k].pc = "sleep"]
    /\ UNCHANGED <<pc, i, n, pth, rc, errs, nbatch, reported>>

\* longParallelComputation2 (lines 42-56)

\* lines 44-48: sprintf, prctl(PR_SET_NAME), i = 0
BStart(k) ==
    /\ threads[k].role = "B"
    /\ threads[k].pc = "start"
    /\ threads' = [threads EXCEPT ![k].name = PrSetName("B", ArgRead(k)),
                                  ![k].i = 0,
                                  ![k].pc = FirstPc("B")]
    /\ UNCHANGED <<pc, i, n, pth, rc, errs, nbatch, reported>>

\* lines 49-55: while(i<10) { sleep(1); ++i; }  return NULL;
BLoop(k) ==
    /\ threads[k].role = "B"
    /\ threads[k].pc = "loop"
    /\ IF WhileCond2(threads[k].i)
       THEN threads' = [threads EXCEPT ![k].i = threads[k].i + 1]
       ELSE threads' = [threads EXCEPT ![k].pc = "done"]
    /\ UNCHANGED <<pc, i, n, pth, rc, errs, nbatch, reported>>

Worker(k) == AStart(k) \/ ASleep(k) \/ ABurst(k) \/ BStart(k) \/ BLoop(k)

Next ==
    \/ Create1
    \/ ForExit1
    \/ Tick
    \/ Create2
    \/ ForExit2
    \/ \E k \in DOMAIN threads : AStart(k)
    \/ \E k \in DOMAIN threads : ASleep(k)
    \/ \E k \in DOMAIN threads : ABurst(k)
    \/ \E k \in DOMAIN threads : BStart(k)
    \/ \E k \in DOMAIN threads : BLoop(k)

Spec == Init /\ [][Next]_vars

\* Every created thread is scheduled again and again: a thread that can take
\* a step eventually takes one.
FairSpec ==
    /\ Spec
    /\ \A k \in 1..MaxThreads : WF_vars(k \in DOMAIN threads /\ Worker(k))

----
\* What the claims speak of.

\* the threads main has created (none is ever joined: the source has no
\* pthread_join)
Spawned == DOMAIN threads

\* a thread that has not returned from its start routine
Live(k) == threads[k].pc # "done"
LiveSet == {k \in Spawned : Live(k)}

\* the threads of batch g
Batch(g) == {k \in Spawned : threads[k].gen = g}

\* the handles main can still name
Held == {pth} \ {NoHandle}

\* C1: the manager never loses the handle of a spawned worker that has not
\* been joined: every thread created so far (none has been joined) is one
\* whose handle main still holds.
C1_HandlesKept == \A k \in Spawned : k \in Held

\* C2: the number of live workers (spawned and not yet returned) never
\* exceeds NUM_THREADS.
C2_LiveBounded == Cardinality(LiveSet) <= NumThreads

\* C3: a batch adds one worker per successful pthread_create, and a batch in
\* which no pthread_create failed has added exactly NUM_THREADS/2 workers
\* when its loop ends, whichever role it spawns.
C3_SpawnBatchExact ==
    /\ Cardinality(Batch(nbatch)) = n - errs
    /\ (pc = "tick" /\ errs = 0) => Cardinality(Batch(nbatch)) = NumThreads \div 2

\* C3 witness: the first periodic (role B) batch has ended without a failed
\* pthread_create.
C3_Witness ==
    /\ pc = "tick"
    /\ nbatch = 1
    /\ errs = 0
    /\ Cardinality(Batch(1)) = NumThreads \div 2

\* C4: two different workers of the same batch never carry the same
\* identifier, and the identifiers of a batch lie in 0..NUM_THREADS/2-1.
C4_IdsUnique ==
    /\ \A k1, k2 \in Spawned :
          (k1 # k2 /\ threads[k1].gen = threads[k2].gen)
             => threads[k1].arg # threads[k2].arg
    /\ \A k \in Spawned : threads[k].arg \in 0..(NumThreads \div 2 - 1)

\* C4 witness: a periodic batch has created two workers.
C4_Witness ==
    \E k1, k2 \in Spawned :
       /\ k1 # k2
       /\ threads[k1].role = "B"
       /\ threads[k2].role = "B"
       /\ threads[k1].gen = threads[k2].gen

RoleBSteps(t) ==
    IF t.pc = "start" THEN LifeSeconds + 2
    ELSE IF t.pc = "loop" THEN LifeSeconds + 1 - t.i
    ELSE 0

\* C7: a role B worker terminates on its own.  Until it has returned it can
\* always take its next step (it waits for nothing, no stop signal included),
\* each of its steps brings it one step closer to its return, and when it has
\* returned it has slept exactly the fixed number of times.
C7_RoleBTerminates ==
    /\ [](\A k \in Spawned :
            (threads[k].role = "B" /\ threads[k].pc = "done")
               => threads[k].i = LifeSeconds)
    /\ [](\A k \in Spawned :
            (threads[k].role = "B" /\ threads[k].pc # "done")
               => ENABLED (BStart(k) \/ BLoop(k)))
    /\ [][\A k \in Spawned :
            (threads[k].role = "B" /\ threads'[k] # threads[k])
               => /\ RoleBSteps(threads[k]) > 0
                  /\ RoleBSteps(threads'[k]) = RoleBSteps(threads[k]) - 1]_vars

\* C7 witness: a role B worker has returned after its last sleep.
C7_Witness ==
    \E k \in Spawned :
       /\ threads[k].role = "B"
       /\ threads[k].pc = "done"
       /\ threads[k].i = LifeSeconds

\* C9: a pthread_create that failed in the current batch has been reported
\* to the caller.
C9_FailureReported == errs > 0 => reported

\* the spec's name for where a thread is: Starting before its prologue has
\* run, Stopped once it has returned, Running in between
StateOf(t) ==
    IF t.pc = "start" THEN "Starting"
    ELSE IF t.pc = "done" THEN "Stopped"
    ELSE "Running"

\* C13: a worker is created Starting and only ever moves Starting -> Running
\* -> Stopped: no state is revisited, Stopped is left by no step and is never
\* entered from Starting.  A pthread_create that fails creates no worker at
\* all, so no worker that exists is one whose spawn failed.
C13_StateMachine ==
    /\ [][\A k \in Spawned :
            \/ StateOf(threads'[k]) = StateOf(threads[k])
            \/ StateOf(threads[k]) = "Starting" /\ StateOf(threads'[k]) = "Running"
            \/ StateOf(threads[k]) = "Running" /\ StateOf(threads'[k]) = "Stopped"]_vars
    /\ [][\A k \in (DOMAIN threads') \ Spawned :
            StateOf(threads'[k]) = "Starting"]_vars
    /\ [][(n' = n + 1 /\ rc' = EAGAIN) => threads' = threads]_vars
    /\ [][(n' = n + 1 /\ rc' = 0) => Len(threads') = Len(threads) + 1]_vars

\* C13 witness: a worker has gone all the way to Stopped, another one is
\* Running, and the last pthread_create failed.
C13_Witness ==
    /\ rc = EAGAIN
    /\ \E k \in Spawned : StateOf(threads[k]) = "Stopped"
    /\ \E k \in Spawned : StateOf(threads[k]) = "Running"

\* C14: a worker's identifier and role never change; the identifier is the
\* value n had when main made the pthread_create call, and the index in the
\* worker's name is that value, whatever main has done to n since.
C14_IdFixedAtCreation ==
    /\ [][\A k \in Spawned :
            /\ threads'[k].arg = threads[k].arg
            /\ threads'[k].role = threads[k].role
            /\ threads'[k].gen = threads[k].gen]_vars
    /\ [][Len(threads') > Len(threads)
            => threads'[Len(threads')].arg = n]_vars
    /\ [](\A k \in Spawned :
            threads[k].name # <<>> => threads[k].name[2] = threads[k].arg)

\* C14 witness: a worker has built its name after main moved n on and
\* created further workers.
C14_Witness ==
    \E k \in Spawned :
       /\ threads[k].name # <<>>
       /\ threads[k].arg # n
       /\ Len(threads) > k
       /\ nbatch = threads[k].gen

\* main's own variables
MainVars == <<pc, i, n, pth, rc, errs, nbatch, reported>>

\* the threads a step changes
Changed == {k \in Spawned : threads'[k] # threads[k]}

\* C15: a step of a worker changes that worker's own locals and nothing
\* else: none of main's variables, no other worker, no creation.  And a
\* worker never waits for another one: as long as it has not returned (and
\* its counter has not overflowed) it can take its next step.
C15_NoSharedState ==
    /\ [][Changed # {} =>
            /\ MainVars' = MainVars
            /\ Len(threads') = Len(threads)
            /\ Cardinality(Changed) = 1]_vars
    /\ [](\A k \in Spawned :
            threads[k].pc \notin {"done", "overflow"} => ENABLED Worker(k))

\* C15 witness: workers of both roles and main have all advanced their own
\* counters.
C15_Witness ==
    /\ i > 0
    /\ \E k \in Spawned : threads[k].role = "A" /\ threads[k].i > 0
    /\ \E k \in Spawned : threads[k].role = "B" /\ threads[k].i > 0

\* C16: a worker has no name before its prologue has run and has one at
\* every later point, so the name is set before the first loop iteration;
\* the name is its role's prefix and its own identifier, and once set it
\* never changes.
C16_NameSetOnce ==
    /\ [](\A k \in Spawned :
            (threads[k].pc = "start") <=> (threads[k].name = <<>>))
    /\ [](\A k \in Spawned :
            threads[k].name # <<>> =>
               threads[k].name =
                  <<IF threads[k].role = "A" THEN "myparworker" ELSE "threadtype2",
                    threads[k].arg>>)
    /\ [][\A k \in Spawned :
            threads[k].name # <<>> => threads'[k].name = threads[k].name]_vars

\* C16 witness: a worker of each role carries its name and is past its first
\* loop iteration.
C16_Witness ==
    /\ \E k \in Spawned :
          threads[k].name = <<"myparworker", threads[k].arg>> /\ threads[k].i > 0
    /\ \E k \in Spawned :
          threads[k].name = <<"threadtype2", threads[k].arg>> /\ threads[k].i > 0

\* C17: a role A worker that sleeps with a counter that is a multiple of the
\* period goes into the burst next, the first iteration (i = 0) included, and
\* with any other counter goes on to the next iteration without a burst; a
\* burst takes exactly the fixed number of steps, ends, and is followed by
\* the next sleep with the counter advanced by one.  Until its counter
\* overflows the worker can always take its next step.
C17_BurstPattern ==
    /\ [][\A k \in Spawned :
            (threads[k].role = "A" /\ threads[k].pc = "sleep"
                                   /\ threads'[k] # threads[k]) =>
               IF threads[k].i % BurstPeriod = 0
               THEN /\ threads'[k].pc = "burst"
                    /\ threads'[k].j = 0
                    /\ threads'[k].i = threads[k].i
               ELSE \/ /\ threads'[k].pc = "sleep"
                       /\ threads'[k].i = threads[k].i + 1
                    \/ /\ threads'[k].pc = "overflow"
                       /\ threads[k].i = IntMax]_vars
    /\ [][\A k \in Spawned :
            (threads[k].role = "A" /\ threads[k].pc = "burst"
                                   /\ threads'[k] # threads[k]) =>
               \/ /\ threads'[k].pc = "burst"
                  /\ threads[k].j < BurstSteps
                  /\ threads'[k].j = threads[k].j + 1
                  /\ threads'[k].i = threads[k].i
               \/ /\ threads'[k].pc = "sleep"
                  /\ threads[k].j = BurstSteps
                  /\ threads'[k].i = threads[k].i + 1
               \/ /\ threads'[k].pc = "overflow"
                  /\ threads[k].j = BurstSteps
                  /\ threads[k].i = IntMax]_vars
    /\ [](\A k \in Spawned :
            (threads[k].role = "A" /\ threads[k].pc = "burst")
               => threads[k].i % BurstPeriod = 0)
    /\ [](\A k \in Spawned :
            (threads[k].role = "A" /\ threads[k].pc # "overflow")
               => ENABLED (AStart(k) \/ ASleep(k) \/ ABurst(k)))

\* C17 witness: a role A worker sleeps again after its second burst.
C17_Witness ==
    \E k \in Spawned :
       /\ threads[k].role = "A"
       /\ threads[k].pc = "sleep"
       /\ threads[k].i = BurstPeriod + 1

\* C18: the tick counter of main and the iteration counter of every role A
\* worker stay within the range of int: no ++i is ever executed on a counter
\* that holds INT_MAX.
C18_CountersInRange ==
    /\ pc # "overflow"
    /\ \A k \in Spawned : threads[k].pc # "overflow"

\* C19: no two live workers carry the same process-visible name.
C19_NamesUnique ==
    \A k1, k2 \in LiveSet :
       (k1 # k2 /\ threads[k1].name # <<>>)
          => threads[k1].name # threads[k2].name

\* C20: main never reaches its return statement nor any point after its
\* loop, and never waits: until its counter overflows it can always take its
\* next step.
C20_MainNeverReturns ==
    /\ [](pc \in {"create1", "tick", "create2", "overflow"})
    /\ [](pc # "overflow"
            => ENABLED (Create1 \/ ForExit1 \/ Tick \/ Create2 \/ ForExit2))

\* C20 witness: main is back at the top of its loop after the second
\* periodic batch while a role A worker is in its loop.
C20_Witness ==
    /\ pc = "tick"
    /\ i = 2 * SpawnPeriod
    /\ \E k \in Spawned :
          threads[k].role = "A" /\ threads[k].pc \in {"sleep", "burst"}

====
